---- MODULE Spec2Model ----
(***************************************************************************)
(* Model of .github/skills/scripts/validate-skill.py: validate_skill and   *)
(* main.  One run of the script is a behaviour: main checks its argument,  *)
(* validate_skill walks through its eight numbered steps, main reports and *)
(* exits.  The file system and the command line are the inputs, fixed in   *)
(* the initial state.                                                      *)
(*                                                                         *)
(* Text is kept run-length encoded so that the limits of the script (64,   *)
(* 1024, 500, 100, 30) are reached with their real values: a string is a   *)
(* sequence of runs [c |-> character, n |-> repetitions], a file is a      *)
(* sequence of runs of lines.                                              *)
(***************************************************************************)
EXTENDS Integers, Sequences, FiniteSets, TLC

VARIABLES
    argv,         \* sys.argv[1:]: <<>> or <<path>>, a path is a sequence of segments
    fs,           \* what the path names on disk
    pc,           \* position of the run
    errors,       \* validate_skill's local `errors`
    warnings,     \* validate_skill's local `warnings`
    frontmatter,  \* validate_skill's local `frontmatter` (a Python value)
    idx,          \* position of the `for fname in sorted(os.listdir(refs_dir))` loops
    exc,          \* the exception that left validate_skill uncaught, or "none"
    exit_code,    \* the process exit status, -1 while running
    passed        \* whether "All checks passed!" was printed

vars == <<argv, fs, pc, errors, warnings, frontmatter, idx, exc, exit_code, passed>>

----------------------------------------------------------------------------
(* Bounds of the explored inputs *)

MaxNameTail == 3
MaxHead == 4
MaxLineToks == 5
MaxRefs == 2

----------------------------------------------------------------------------
(* Limits written in the script *)

MaxNameLen == 64
MaxDescLen == 1024
MaxBodyLines == 500
TocMinLines == 100
TocHeaderLines == 30
MaxNestedShown == 3

----------------------------------------------------------------------------
(* Python strings, run-length encoded *)

Run(c, n) == [c |-> c, n |-> n]

Str1(c) == <<Run(c, 1)>>

RECURSIVE PyLen(_)
PyLen(s) == IF s = <<>> THEN 0 ELSE s[1].n + PyLen(Tail(s))

Rep(c, n) == [i \in 1..n |-> c]

RECURSIVE Chars(_)
Chars(s) == IF s = <<>> THEN <<>> ELSE Rep(s[1].c, s[1].n) \o Chars(Tail(s))

Front(q) == SubSeq(q, 1, Len(q) - 1)

Last(q) == q[Len(q)]

IsSpace(c) == c \in {" ", "\n", "\t"}

RECURSIVE LStrip(_)
LStrip(s) ==
    IF s = <<>> THEN <<>>
    ELSE IF IsSpace(s[1].c) THEN LStrip(Tail(s)) ELSE s

RECURSIVE RStrip(_)
RStrip(s) ==
    IF s = <<>> THEN <<>>
    ELSE IF IsSpace(Last(s).c) THEN RStrip(Front(s)) ELSE s

Strip(s) == RStrip(LStrip(s))

RECURSIVE CollapseFrom(_, _)
CollapseFrom(s, inWs) ==
    IF s = <<>> THEN <<>>
    ELSE IF IsSpace(s[1].c)
         THEN (IF inWs THEN <<>> ELSE Str1(" ")) \o CollapseFrom(Tail(s), TRUE)
         ELSE <<s[1]>> \o CollapseFrom(Tail(s), FALSE)

CollapseWsSkipped(s) == s

\* re.sub(r"\s+", " ", s)
CollapseWs(s) == CollapseFrom(s, FALSE)

LowerLetters ==
    {"a","b","c","d","e","f","g","h","i","j","k","l","m",
     "n","o","p","q","r","s","t","u","v","w","x","y","z"}

Digits == {"0","1","2","3","4","5","6","7","8","9"}

AlNum == LowerLetters \cup Digits

NameBody(q) ==
    /\ Len(q) >= 1
    /\ q[1] \in AlNum
    /\ Last(q) \in AlNum
    /\ \A i \in 1..Len(q) : q[i] \in AlNum \cup {"-"}

NamePatternMatches(s) ==
    LET q == Chars(s) IN
    \/ NameBody(q)
    \/ /\ Len(q) >= 1
       /\ Last(q) = "\n"
       /\ NameBody(Front(q))

HasDoubleHyphen(s) ==
    LET q == Chars(s) IN
    \E i \in 1..(Len(q) - 1) : q[i] = "-" /\ q[i + 1] = "-"

StrEq(s, t) == Chars(s) = Chars(t)

----------------------------------------------------------------------------
(* Python values as yaml.safe_load produces them *)

PyNone == [t |-> "None", s |-> <<>>, i |-> 0]

PyStr(s) == [t |-> "str", s |-> s, i |-> 0]

PyInt(i) == [t |-> "int", s |-> <<>>, i |-> i]

PyBool(b) == [t |-> "bool", s |-> <<>>, i |-> IF b THEN 1 ELSE 0]

\* a list of i one-letter strings
PyList(i) == [t |-> "list", s |-> <<>>, i |-> i]

\* bool(v), as `not v` uses it
Truthy(v) ==
    CASE v.t = "None" -> FALSE
      [] v.t = "str"  -> PyLen(v.s) > 0
      [] OTHER        -> v.i # 0

\* len(v) is defined (no TypeError)
HasLen(v) == v.t \in {"str", "list"}

\* re.match(pattern, v) is defined (no TypeError)
IsStr(v) == v.t = "str"

DigitChar == <<"1", "2", "3", "4", "5", "6", "7", "8", "9">>

\* str(v); ints of the model are single digits, lists have at most one item
ToStr(v) ==
    CASE v.t = "str"  -> v.s
      [] v.t = "None" -> <<Run("N", 1), Run("o", 1), Run("n", 1), Run("e", 1)>>
      [] v.t = "int"  -> IF v.i = 0 THEN Str1("0") ELSE Str1(DigitChar[v.i])
      [] v.t = "bool" -> IF v.i = 1
                         THEN <<Run("T", 1), Run("r", 1), Run("u", 1), Run("e", 1)>>
                         ELSE <<Run("F", 1), Run("a", 1), Run("l", 1), Run("s", 1), Run("e", 1)>>
      [] OTHER        -> IF v.i = 0
                         THEN <<Run("[", 1), Run("]", 1)>>
                         ELSE <<Run("[", 1), Run("'", 1), Run("a", 1), Run("'", 1), Run("]", 1)>>

\* dict.get(k, default)
DictGet(d, k, default) == IF k \in DOMAIN d THEN d[k] ELSE default

----------------------------------------------------------------------------
(* Paths: os.path.basename(os.path.normpath(skill_dir)) for relative paths *)

Dot == Str1(".")

DotDot == <<Run(".", 2)>>

RECURSIVE NormFrom(_, _)
NormFrom(segs, acc) ==
    IF segs = <<>> THEN acc
    ELSE LET g == segs[1] IN
         IF Chars(g) = <<>> \/ StrEq(g, Dot)
         THEN NormFrom(Tail(segs), acc)
         ELSE IF StrEq(g, DotDot)
              THEN IF acc # <<>> /\ ~StrEq(Last(acc), DotDot)
                   THEN NormFrom(Tail(segs), Front(acc))
                   ELSE NormFrom(Tail(segs), Append(acc, g))
              ELSE NormFrom(Tail(segs), Append(acc, g))

NormPath(path) ==
    LET r == NormFrom(path, <<>>) IN IF r = <<>> THEN <<Dot>> ELSE r

BaseName(path) == Last(path)

DirName(path) == BaseName(NormPath(path))

----------------------------------------------------------------------------
(* SKILL.md: the first lines `head` one by one, then `tail` as runs of lines *)

HeadKinds == {"delim", "blank", "kv", "text", "item", "bad"}

\* line j of the head ends in a newline
Terminated(f, j) == j < Len(f.head) \/ f.tail # <<>> \/ f.nl

RECURSIVE BlankRun(_, _)
BlankRun(h, j) ==
    IF j <= Len(h) /\ h[j] = "blank" THEN 1 + BlankRun(h, j + 1) ELSE 0

\* closing delimiters usable when the opening `---\s*\n` ends after line 1+m
Closers(f, m) ==
    {j \in (3 + m)..Len(f.head) : f.head[j] = "delim" /\ Terminated(f, j)}

Min(S) == CHOOSE x \in S : \A y \in S : x <= y

Max(S) == CHOOSE x \in S : \A y \in S : x >= y

\* re.match(r"^---\s*\n(.*?)\n---\s*\n", content, re.DOTALL): \s* is greedy,
\* so the longest run of blank lines after line 1 that still leaves a closing
\* delimiter is consumed by the opening; (.*?) is lazy, so the first closing
\* delimiter after that is taken
FmMatch(f) ==
    LET h  == f.head
        ms == IF Len(h) >= 1 /\ h[1] = "delim"
              THEN {m \in 0..BlankRun(h, 2) : Closers(f, m) # {}}
              ELSE {}
    IN  IF ms = {} THEN [ok |-> FALSE, group |-> <<>>, end |-> 0]
        ELSE LET m == Max(ms)
                 j == Min(Closers(f, m))
             IN  [ok |-> TRUE, group |-> SubSeq(h, 2 + m, j - 1), end |-> j]

\* yaml.safe_load(fm_match.group(1)); `fields` is what the key: value lines hold
SafeLoad(group, fields) ==
    LET g1 == IF group # <<>> /\ group[1] = "delim" THEN Tail(group) ELSE group
        g  == SelectSeq(g1, LAMBDA k : k # "blank")
        ks == {g[i] : i \in 1..Len(g)}
    IN  IF ks = {} THEN [err |-> FALSE, val |-> [t |-> "None", d |-> <<>>]]
        ELSE IF ks = {"kv"} THEN [err |-> FALSE, val |-> [t |-> "dict", d |-> fields]]
        ELSE IF ks = {"text"} THEN [err |-> FALSE, val |-> [t |-> "str", d |-> <<>>]]
        ELSE IF ks = {"item"} THEN [err |-> FALSE, val |-> [t |-> "list", d |-> <<>>]]
        ELSE [err |-> TRUE, val |-> [t |-> "None", d |-> <<>>]]

LineRun(k, n) == [c |-> k, n |-> n]

\* content[fm_match.end():] as runs of lines
Body(f) ==
    LET e == FmMatch(f).end IN
    [i \in 1..(Len(f.head) - e) |->
        LineRun(IF f.head[e + i] = "blank" THEN "blank" ELSE "text", 1)] \o f.tail

RECURSIVE LStripLines(_)
LStripLines(b) ==
    IF b = <<>> THEN <<>>
    ELSE IF b[1].c = "blank" THEN LStripLines(Tail(b)) ELSE b

RECURSIVE RStripLines(_)
RStripLines(b) ==
    IF b = <<>> THEN <<>>
    ELSE IF Last(b).c = "blank" THEN RStripLines(Front(b)) ELSE b

\* len(body.strip().splitlines())
BodyLineCount(b) == PyLen(RStripLines(LStripLines(b)))

----------------------------------------------------------------------------
(* references/: entries [name, kind, lines]; a line is a sequence of tokens, *)
(* `lines` is a sequence of runs [c |-> line, n |-> repetitions]             *)

CharCode ==
    [c \in {".", "D", "M", "a", "b", "c", "d", "m", "t", "x"} |->
        CASE c = "." -> 46 [] c = "D" -> 68 [] c = "M" -> 77 [] c = "a" -> 97
          [] c = "b" -> 98 [] c = "c" -> 99 [] c = "d" -> 100 [] c = "m" -> 109
          [] c = "t" -> 116 [] OTHER -> 120]

\* p < q for Python strings (code point order)
RECURSIVE LexLess(_, _)
LexLess(p, q) ==
    IF q = <<>> THEN FALSE
    ELSE IF p = <<>> THEN TRUE
    ELSE IF p[1] = q[1] THEN LexLess(Tail(p), Tail(q))
    ELSE CharCode[p[1]] < CharCode[q[1]]

\* sorted(os.listdir(refs_dir)), with the entry of each name
RECURSIVE SortedListing(_)
SortedListing(S) ==
    IF S = {} THEN <<>>
    ELSE LET e == CHOOSE x \in S : \A y \in S \ {x} : LexLess(x.name, y.name)
         IN  <<e>> \o SortedListing(S \ {e})

\* fname.endswith(".md")
EndsWithMd(name) ==
    /\ Len(name) >= 3
    /\ SubSeq(name, Len(name) - 2, Len(name)) = <<".", "m", "d">>

\* not (not fname.endswith(".md") or not os.path.isfile(fpath))
IsRefFile(e) == EndsWithMd(e.name) /\ e.kind = "file"

\* ref_lines[:k]
RECURSIVE TakeLines(_, _)
TakeLines(runs, k) ==
    IF runs = <<>> \/ k <= 0 THEN <<>>
    ELSE IF runs[1].n <= k
         THEN <<runs[1]>> \o TakeLines(Tail(runs), k - runs[1].n)
         ELSE <<LineRun(runs[1].c, k)>>

LowerWord ==
    [w \in {"Table", "TABLE", "table", "of", "OF", "Contents", "CONTENTS", "contents",
            "##", "#", "t", "[", "](", "references/", "./", ".md)", ")"} |->
        CASE w \in {"Table", "TABLE"} -> "table"
          [] w = "OF" -> "of"
          [] w \in {"Contents", "CONTENTS"} -> "contents"
          [] OTHER -> w]

\* line.lower()
LowerLine(line) == [i \in 1..Len(line) |-> LowerWord[line[i]]]

\* needle in line
ContainsWords(line, needle) ==
    \E i \in 0..(Len(line) - Len(needle)) :
        SubSeq(line, i + 1, i + Len(needle)) = needle

\* needle in "".join(lines).lower(); the needles hold no line break, so an
\* occurrence lies within one line
HeaderContains(runs, needle) ==
    \E r \in 1..Len(runs) : ContainsWords(LowerLine(runs[r].c), needle)

TocAbsent(header) ==
    /\ ~HeaderContains(header, <<"table", "of", "contents">>)
    /\ ~HeaderContains(header, <<"##", "contents">>)

NeedsTocOffByOne(n) == n >= TocMinLines

NeedsToc(n) == n > TocMinLines

\* where the match of \[.*?\]\((?:references/|\./).*?\.md\) that starts at
\* position i of a line ends, or 0 when none starts there; both .*? are lazy
\* and `.` does not cross a line break
MatchAt(line, i) ==
    LET js == {j \in (i + 1)..(Len(line) - 2) :
                  /\ line[j] = "]("
                  /\ line[j + 1] \in {"references/", "./"}
                  /\ \E e \in (j + 2)..Len(line) : line[e] = ".md)"}
    IN  IF line[i] # "[" \/ js = {} THEN 0
        ELSE LET j == Min(js) IN Min({e \in (j + 2)..Len(line) : line[e] = ".md)"})

RECURSIVE FindAllLine(_, _)
FindAllLine(line, p) ==
    LET starts == {i \in p..Len(line) : MatchAt(line, i) # 0} IN
    IF starts = {} THEN <<>>
    ELSE LET i == Min(starts)
             e == MatchAt(line, i)
         IN  <<SubSeq(line, i, e)>> \o FindAllLine(line, e + 1)

\* re.findall(..., ref_content)[:k]
RECURSIVE FindAllHead(_, _)
FindAllHead(runs, k) ==
    IF runs = <<>> \/ k <= 0 THEN <<>>
    ELSE LET ms == FindAllLine(runs[1].c, 1) IN
         IF ms = <<>> THEN FindAllHead(Tail(runs), k)
         ELSE IF Len(ms) >= k THEN SubSeq(ms, 1, k)
         ELSE ms \o FindAllHead(
                  IF runs[1].n > 1
                  THEN <<LineRun(runs[1].c, runs[1].n - 1)>> \o Tail(runs)
                  ELSE Tail(runs),
                  k - Len(ms))

----------------------------------------------------------------------------
(* Findings: the entries of `errors` and `warnings` *)

Finding(kind, n, a, b, l) == [kind |-> kind, n |-> n, a |-> a, b |-> b, l |-> l]

ErrNotFound == Finding("skill_md_not_found", 0, <<>>, <<>>, <<>>)

ErrNoFrontmatter == Finding("no_frontmatter", 0, <<>>, <<>>, <<>>)

ErrInvalidYaml == Finding("invalid_yaml", 0, <<>>, <<>>, <<>>)

ErrNameMissing == Finding("name_missing", 0, <<>>, <<>>, <<>>)

ErrNameLength(n) == Finding("name_length", n, <<>>, <<>>, <<>>)

ErrNamePattern(name) == Finding("name_pattern", 0, Chars(name), <<>>, <<>>)

ErrNameHyphens(name) == Finding("name_hyphens", 0, Chars(name), <<>>, <<>>)

ErrNameMismatch(name, dir) == Finding("name_mismatch", 0, Chars(name), Chars(dir), <<>>)

ErrDescMissing == Finding("desc_missing", 0, <<>>, <<>>, <<>>)

ErrDescLength(n) == Finding("desc_length", n, <<>>, <<>>, <<>>)

WarnNoLicense == Finding("no_license", 0, <<>>, <<>>, <<>>)

WarnBodyLines(n) == Finding("body_lines", n, <<>>, <<>>, <<>>)

WarnNoToc(fname, n) == Finding("no_toc", n, fname, <<>>, <<>>)

WarnNested(fname, l) == Finding("nested_links", 0, fname, <<>>, l)

----------------------------------------------------------------------------
(* The steps of validate_skill *)

\* lines 53-61, for a name that is a string
NameErrors(name, dir) ==
    (IF PyLen(name) > MaxNameLen THEN <<ErrNameLength(PyLen(name))>> ELSE <<>>)
    \o (IF ~NamePatternMatches(name) THEN <<ErrNamePattern(name)>> ELSE <<>>)
    \o (IF HasDoubleHyphen(name) THEN <<ErrNameHyphens(name)>> ELSE <<>>)
    \o (IF ~StrEq(name, dir) THEN <<ErrNameMismatch(name, dir)>> ELSE <<>>)

\* lines 64-72
DescErrors(d) ==
    LET desc == DictGet(d, "description", PyStr(<<>>)) IN
    IF ~Truthy(desc) \/ PyLen(Strip(ToStr(desc))) = 0
    THEN <<ErrDescMissing>>
    ELSE LET desc_collapsed == CollapseWs(Strip(ToStr(desc))) IN
         IF PyLen(desc_collapsed) > MaxDescLen
         THEN <<ErrDescLength(PyLen(desc_collapsed))>>
         ELSE <<>>

BodyTooLongOffByOne(n) == n >= MaxBodyLines

BodyTooLong(n) == n > MaxBodyLines

\* os.path.exists in place of os.path.isfile
SkillMdMissingUnlessExists(f) == f.skill = "none"

\* not os.path.isfile(skill_md)
SkillMdMissing(f) == f.skill # "file"

LicenseMissingWhenPresent(d) == "license" \in DOMAIN d

\* "license" not in frontmatter
LicenseMissing(d) == "license" \notin DOMAIN d

ExitStatusCountingWarnings(errs, warns) == IF errs # <<>> \/ warns # <<>> THEN 1 ELSE 0

\* lines 144-146
ExitStatus(errs, warns) == IF errs # <<>> THEN 1 ELSE 0

\* line 140
AllPassed(errs, warns) == errs = <<>> /\ warns = <<>>

\* lines 93-97 for one reference file
TocWarnings(e) ==
    IF NeedsToc(PyLen(e.lines)) /\ TocAbsent(TakeLines(e.lines, TocHeaderLines))
    THEN <<WarnNoToc(e.name, PyLen(e.lines))>>
    ELSE <<>>

\* lines 107-109 for one reference file
NestedWarnings(e) ==
    LET nested == FindAllHead(e.lines, MaxNestedShown) IN
    IF nested # <<>> THEN <<WarnNested(e.name, nested)>> ELSE <<>>

Listing == IF fs.refsKind = "dir" THEN SortedListing(fs.refs) ELSE <<>>

Return == pc' = "returned"

\* an exception nobody catches ends the process with a traceback and status 1
Raise(e) == pc' = "exit" /\ exc' = e /\ exit_code' = 1

Main ==
    /\ pc = "main"
    /\ IF argv = <<>> \/ ~fs.isDir
       THEN pc' = "exit" /\ exit_code' = 1
       ELSE pc' = "step1" /\ UNCHANGED exit_code
    /\ UNCHANGED <<argv, fs, errors, warnings, frontmatter, idx, exc, passed>>

CheckExists ==
    /\ pc = "step1"
    /\ IF SkillMdMissing(fs)
       THEN errors' = Append(errors, ErrNotFound) /\ Return
       ELSE pc' = "step2" /\ UNCHANGED errors
    /\ UNCHANGED <<argv, fs, warnings, frontmatter, idx, exc, exit_code, passed>>

ParseFrontmatter ==
    /\ pc = "step2"
    /\ LET fm_match == FmMatch(fs)
           loaded   == SafeLoad(fm_match.group, fs.fields)
       IN  IF ~fm_match.ok
           THEN errors' = Append(errors, ErrNoFrontmatter) /\ Return
                /\ UNCHANGED frontmatter
           ELSE IF loaded.err
                THEN errors' = Append(errors, ErrInvalidYaml) /\ Return
                     /\ UNCHANGED frontmatter
                ELSE frontmatter' = loaded.val /\ pc' = "step3" /\ UNCHANGED errors
    /\ UNCHANGED <<argv, fs, warnings, idx, exc, exit_code, passed>>

ValidateName ==
    /\ pc = "step3"
    /\ IF frontmatter.t # "dict"
       THEN Raise("AttributeError") /\ UNCHANGED errors
       ELSE LET name == DictGet(frontmatter.d, "name", PyNone) IN
            IF ~Truthy(name)
            THEN errors' = Append(errors, ErrNameMissing) /\ pc' = "step4"
                 /\ UNCHANGED <<exc, exit_code>>
            ELSE IF ~HasLen(name) \/ ~IsStr(name)
                 THEN Raise("TypeError") /\ UNCHANGED errors
                 ELSE errors' = errors \o NameErrors(name.s, DirName(argv[1]))
                      /\ pc' = "step4" /\ UNCHANGED <<exc, exit_code>>
    /\ UNCHANGED <<argv, fs, warnings, frontmatter, idx, passed>>

ValidateDescription ==
    /\ pc = "step4"
    /\ errors' = errors \o DescErrors(frontmatter.d)
    /\ pc' = "step5"
    /\ UNCHANGED <<argv, fs, warnings, frontmatter, idx, exc, exit_code, passed>>

CheckLicense ==
    /\ pc = "step5"
    /\ warnings' = IF LicenseMissing(frontmatter.d)
                   THEN Append(warnings, WarnNoLicense) ELSE warnings
    /\ pc' = "step6"
    /\ UNCHANGED <<argv, fs, errors, frontmatter, idx, exc, exit_code, passed>>

CheckBody ==
    /\ pc = "step6"
    /\ LET n == BodyLineCount(Body(fs)) IN
       warnings' = IF BodyTooLong(n) THEN Append(warnings, WarnBodyLines(n)) ELSE warnings
    /\ pc' = "step7"
    /\ idx' = 1
    /\ UNCHANGED <<argv, fs, errors, frontmatter, exc, exit_code, passed>>

\* one turn of the loop of step 7
CheckToc ==
    /\ pc = "step7"
    /\ idx <= Len(Listing)
    /\ LET e == Listing[idx] IN
       warnings' = IF IsRefFile(e) THEN warnings \o TocWarnings(e) ELSE warnings
    /\ idx' = idx + 1
    /\ UNCHANGED <<argv, fs, pc, errors, frontmatter, exc, exit_code, passed>>

EndToc ==
    /\ pc = "step7"
    /\ idx > Len(Listing)
    /\ pc' = "step8"
    /\ idx' = 1
    /\ UNCHANGED <<argv, fs, errors, warnings, frontmatter, exc, exit_code, passed>>

\* one turn of the loop of step 8
CheckNested ==
    /\ pc = "step8"
    /\ idx <= Len(Listing)
    /\ LET e == Listing[idx] IN
       warnings' = IF IsRefFile(e) THEN warnings \o NestedWarnings(e) ELSE warnings
    /\ idx' = idx + 1
    /\ UNCHANGED <<argv, fs, pc, errors, frontmatter, exc, exit_code, passed>>

EndNested ==
    /\ pc = "step8"
    /\ idx > Len(Listing)
    /\ Return
    /\ UNCHANGED <<argv, fs, errors, warnings, frontmatter, idx, exc, exit_code, passed>>

\* main, lines 130-146
Report ==
    /\ pc = "returned"
    /\ passed' = AllPassed(errors, warnings)
    /\ exit_code' = ExitStatus(errors, warnings)
    /\ pc' = "exit"
    /\ UNCHANGED <<argv, fs, errors, warnings, frontmatter, idx, exc>>

----------------------------------------------------------------------------
(* The explored inputs: one aspect of the directory varies widely while the  *)
(* others keep a plain value, plus a small full cross product                *)

SeqsUpTo(S, n) == UNION {[1..k -> S] : k \in 0..n}

\* the run-length encoding of a sequence of characters, one run each
Lit(q) == [i \in 1..Len(q) |-> Run(q[i], 1)]

Absent == [t |-> "absent", s |-> <<>>, i |-> 0]

\* the mapping of the key: value lines
MkFields(name, desc, lic) ==
    LET keys == (IF name.t # "absent" THEN {"name"} ELSE {})
                \cup (IF desc.t # "absent" THEN {"description"} ELSE {})
                \cup (IF lic THEN {"license"} ELSE {})
    IN  [k \in keys |-> CASE k = "name" -> name
                          [] k = "description" -> desc
                          [] OTHER -> PyStr(Str1("x"))]

MkInput(args, isDir, skill, head, nl, fields, tail, refsKind, refs) ==
    [argv |-> args,
     fs |-> [isDir |-> isDir, skill |-> skill, head |-> head, nl |-> nl,
             fields |-> fields, tail |-> tail, refsKind |-> refsKind, refs |-> refs]]

PlainPath == <<Str1("a")>>

PlainName == PyStr(Str1("a"))

PlainDesc == PyStr(Str1("x"))

PlainHead == <<"delim", "kv", "delim">>

PlainFields == MkFields(PlainName, PlainDesc, TRUE)

NonStrings == {PyNone, PyInt(0), PyInt(7), PyBool(FALSE), PyBool(TRUE), PyList(0), PyList(1)}

NameAlphabet == {"a", "A", "-", "\n"}

LongPad == <<Run("a", MaxNameLen - 2)>>

NameStrings ==
    {pad \o Lit(q) : pad \in {<<>>, Str1("a"), LongPad}, q \in SeqsUpTo(NameAlphabet, MaxNameTail)}

NameValues == {PyStr(s) : s \in NameStrings} \cup NonStrings \cup {Absent}

DirNames ==
    {Str1("a"), Lit(<<"a", "-", "a">>), Lit(<<"a", "-", "-", "a">>), Lit(<<"a", "\n">>),
     LongPad \o Lit(<<"a", "a">>)}

Paths ==
    {<<g>> : g \in DirNames}
    \cup {<<Str1("a"), <<>>>>, <<Str1("a"), Dot>>, <<Str1("b"), Str1("a")>>,
          <<Str1("a"), DotDot>>, <<Str1("a"), DotDot, Lit(<<"a", "-", "a">>)>>}

DescRuns ==
    {Run(c, n) : c \in {"x", " ", "\n"}, n \in {1, 2, MaxDescLen - 2, MaxDescLen}}

DescValues == {PyStr(s) : s \in SeqsUpTo(DescRuns, 3)} \cup NonStrings \cup {Absent}

BodyRuns ==
    {LineRun(c, n) : c \in {"blank", "text"},
                     n \in {1, MaxBodyLines - 1, MaxBodyLines, MaxBodyLines + 1}}

Tails == SeqsUpTo(BodyRuns, 3)

Filler == <<"t">>

\* runs, without the empty ones
Runs(q) == SelectSeq(q, LAMBDA r : r.n > 0)

TocLines ==
    {<<"Table", "of", "Contents">>, <<"TABLE", "OF", "CONTENTS">>, <<"##", "Contents">>,
     <<"##", "t", "contents">>, <<"table", "of">>, <<"contents">>, Filler}

TocFiles ==
    {Runs(<<LineRun(Filler, a), LineRun(l1, 1), LineRun(l2, 1), LineRun(Filler, b)>>) :
        a \in {0, TocHeaderLines - 2, TocHeaderLines - 1, TocHeaderLines},
        l1 \in TocLines, l2 \in TocLines,
        b \in {0, TocMinLines - TocHeaderLines - 2, TocMinLines - TocHeaderLines - 1,
               TocMinLines - TocHeaderLines}}

LinkTokens == {"[", "](", "references/", "./", ".md)", ")", "t"}

LinkFiles == {<<LineRun(l, 1)>> : l \in SeqsUpTo(LinkTokens, MaxLineToks)}

LinkLines ==
    {<<"[", "t", "](", "./", "t", ".md)">>,
     <<"[", "t", "](", "references/", "t", ".md)", "[", "](", "./", ".md)">>,
     <<"[", "t", "](", "t", ".md)">>,
     Filler}

ManyLinkFiles ==
    {<<LineRun(l1, n1), LineRun(l2, n2)>> :
        l1 \in LinkLines, l2 \in LinkLines, n1 \in 1..2, n2 \in {1, MaxNestedShown + 1}}

RefNames ==
    {<<"a", ".", "m", "d">>, <<"b", ".", "m", "d">>, <<"c", ".", "t", "x", "t">>,
     <<"d", ".", "M", "D">>, <<".", "m", "d">>, <<"m", "d">>}

Entry(name, kind, lines) == [name |-> name, kind |-> kind, lines |-> lines]

SampleFiles ==
    {<<LineRun(Filler, TocMinLines + 1)>>,
     <<LineRun(<<"[", "t", "](", "./", "t", ".md)">>, 1)>>,
     <<LineRun(<<"##", "Contents">>, 1), LineRun(Filler, TocMinLines)>>}

Entries == {Entry(n, k, l) : n \in RefNames, k \in {"file", "dir"}, l \in SampleFiles}

\* directories of at most MaxRefs entries, no two with one name
RECURSIVE SubsetsUpTo(_, _)
SubsetsUpTo(S, k) ==
    IF k = 0 THEN {{}}
    ELSE LET P == SubsetsUpTo(S, k - 1) IN P \cup {T \cup {x} : T \in P, x \in S}

RefDirs ==
    {S \in SubsetsUpTo(Entries, MaxRefs) : \A x, y \in S : x.name = y.name => x = y}

Plain(args, isDir, skill, refsKind, refs) ==
    MkInput(args, isDir, skill, PlainHead, TRUE, PlainFields, <<>>, refsKind, refs)

OneRef(lines) == {Entry(<<"a", ".", "m", "d">>, "file", lines)}

Given(inp) == argv = inp.argv /\ fs = inp.fs

InitMain ==
    \E args \in {<<>>, <<PlainPath>>}, d \in BOOLEAN, k \in {"none", "dir", "file"},
       rk \in {"none", "file", "dir"}, l \in SampleFiles :
        Given(Plain(args, d, k, rk, OneRef(l)))

InitHead ==
    \E h \in SeqsUpTo(HeadKinds, MaxHead), nl \in BOOLEAN,
       t \in {<<>>, <<LineRun("text", 1)>>} :
        Given(MkInput(<<PlainPath>>, TRUE, "file", h, nl, PlainFields, t, "none", {}))

InitName ==
    \E p \in Paths, n \in NameValues :
        Given(MkInput(<<p>>, TRUE, "file", PlainHead, TRUE, MkFields(n, PlainDesc, TRUE),
                      <<>>, "none", {}))

InitDesc ==
    \E d \in DescValues :
        Given(MkInput(<<PlainPath>>, TRUE, "file", PlainHead, TRUE,
                      MkFields(PlainName, d, TRUE), <<>>, "none", {}))

InitBody ==
    \E h \in SeqsUpTo({"blank", "text"}, 1), nl \in BOOLEAN, t \in Tails :
        Given(MkInput(<<PlainPath>>, TRUE, "file", PlainHead \o h, nl, PlainFields,
                      t, "none", {}))

InitRefs ==
    \/ \E l \in TocFiles \cup LinkFiles \cup ManyLinkFiles :
        Given(Plain(<<PlainPath>>, TRUE, "file", "dir", OneRef(l)))
    \/ \E r \in RefDirs : Given(Plain(<<PlainPath>>, TRUE, "file", "dir", r))

InitCross ==
    \E n \in {PlainName, PyStr(Lit(<<"A", "-", "-">>)), PyInt(7), Absent},
       d \in {PlainDesc, PyStr(Str1(" ")), PyStr(<<Run("x", MaxDescLen), Run("x", 1)>>)},
       lic \in BOOLEAN,
       t \in {<<>>, <<LineRun("text", MaxBodyLines + 1)>>},
       r \in {{}, OneRef(<<LineRun(<<"[", "](", "./", ".md)">>, TocMinLines + 1)>>)} :
        Given(MkInput(<<PlainPath>>, TRUE, "file", PlainHead, TRUE, MkFields(n, d, lic),
                      t, "dir", r))

Init ==
    /\ \/ InitMain
       \/ InitHead
       \/ InitName
       \/ InitDesc
       \/ InitBody
       \/ InitRefs
       \/ InitCross
    /\ pc = "main"
    /\ errors = <<>>
    /\ warnings = <<>>
    /\ frontmatter = [t |-> "None", d |-> <<>>]
    /\ idx = 1
    /\ exc = "none"
    /\ exit_code = -1
    /\ passed = FALSE

Next ==
    \/ Main
    \/ CheckExists
    \/ ParseFrontmatter
    \/ ValidateName
    \/ ValidateDescription
    \/ CheckLicense
    \/ CheckBody
    \/ CheckToc
    \/ EndToc
    \/ CheckNested
    \/ EndNested
    \/ Report

Spec == Init /\ [][Next]_vars

----------------------------------------------------------------------------
(* Properties *)

\* validate_skill was called
Called == argv # <<>> /\ fs.isDir

Kinds(findings) == [i \in 1..Len(findings) |-> findings[i].kind]

OfKind(findings, kind) == SelectSeq(findings, LAMBDA x : x.kind = kind)

\* the findings about one reference file
OfFile(findings, kind, name) == SelectSeq(findings, LAMBDA x : x.kind = kind /\ x.a = name)

RECURSIVE SumRuns(_, _, _)
SumRuns(runs, lo, hi) == IF lo > hi THEN 0 ELSE runs[lo].n + SumRuns(runs, lo + 1, hi)

\* C1: without a regular file SKILL.md in the directory, validate_skill goes
\* from step 1 straight to its return: it returns the single error "SKILL.md
\* not found" and no warning, raises nothing, and never reaches the header
\* parse, the field checks or the scan of references/
C1_MissingSkillMd ==
    fs.skill # "file" =>
        /\ pc \in {"main", "step1", "returned", "exit"}
        /\ exc = "none"
        /\ warnings = <<>>
        /\ frontmatter.t = "None"
        /\ idx = 1
        /\ (pc \in {"main", "step1"} => errors = <<>>)
        /\ (pc = "returned" \/ (pc = "exit" /\ Called)) => Kinds(errors) = <<"skill_md_not_found">>

C1_Witness ==
    /\ pc = "returned"
    /\ fs.skill = "dir"
    /\ fs.refsKind = "dir"
    /\ fs.refs # {}
    /\ Len(errors) = 1

\* the lines of the body between its first and its last non-blank line
TrimmedBodyLines ==
    LET b  == Body(fs)
        nb == {i \in 1..Len(b) : b[i].c # "blank"}
    IN  IF nb = {} THEN 0 ELSE SumRuns(b, Min(nb), Max(nb))

\* step 6 has run
AfterBody ==
    /\ frontmatter.t = "dict"
    /\ exc = "none"
    /\ pc \in {"step7", "step8", "returned", "exit"}

\* C5: once step 6 has run, `warnings` holds the body-length warning exactly
\* once when the body, without its leading and trailing blank lines, has more
\* than 500 lines, and not at all otherwise; the warning gives that count
C5_BodyLength ==
    AfterBody =>
        LET ws == OfKind(warnings, "body_lines") IN
        IF TrimmedBodyLines > MaxBodyLines
        THEN Len(ws) = 1 /\ ws[1].n = TrimmedBodyLines
        ELSE ws = <<>>

C5_Witness ==
    /\ pc = "returned"
    /\ TrimmedBodyLines = MaxBodyLines + 1
    /\ PyLen(Body(fs)) > MaxBodyLines + 1
    /\ Len(OfKind(warnings, "body_lines")) = 1

\* a needle stands on one of the first 30 lines of a file
InFirstLines(runs, needle) ==
    \E r \in 1..Len(runs) :
        /\ SumRuns(runs, 1, r - 1) < TocHeaderLines
        /\ ContainsWords(LowerLine(runs[r].c), needle)

HasTocToken(runs) ==
    \/ InFirstLines(runs, <<"table", "of", "contents">>)
    \/ InFirstLines(runs, <<"##", "contents">>)

\* step 7 has run
AfterToc ==
    /\ frontmatter.t = "dict"
    /\ exc = "none"
    /\ pc \in {"step8", "returned", "exit"}

\* C6: once step 7 has run, each entry of references/ that is a regular file
\* with a name ending in .md has exactly one table-of-contents warning, naming
\* it and its line count, when it has more than 100 lines and none of its
\* first 30 lines holds "table of contents" or "## contents" in any case, and
\* none otherwise; other entries have none
C6_TableOfContents ==
    AfterToc =>
        /\ fs.refsKind # "dir" => OfKind(warnings, "no_toc") = <<>>
        /\ fs.refsKind = "dir" =>
            /\ \A w \in {warnings[i] : i \in 1..Len(warnings)} :
                   w.kind = "no_toc" => \E e \in fs.refs : e.name = w.a
            /\ \A e \in fs.refs :
                LET ws == OfFile(warnings, "no_toc", e.name) IN
                IF /\ e.kind = "file"
                   /\ EndsWithMd(e.name)
                   /\ SumRuns(e.lines, 1, Len(e.lines)) > TocMinLines
                   /\ ~HasTocToken(e.lines)
                THEN Len(ws) = 1 /\ ws[1].n = SumRuns(e.lines, 1, Len(e.lines))
                ELSE ws = <<>>

\* 101 lines, the token on line 31 only: warned
C6_Witness ==
    /\ pc = "returned"
    /\ \E e \in fs.refs :
        /\ SumRuns(e.lines, 1, Len(e.lines)) = TocMinLines + 1
        /\ \E r \in 1..Len(e.lines) :
            /\ SumRuns(e.lines, 1, r - 1) = TocHeaderLines
            /\ e.lines[r].c = <<"##", "Contents">>
        /\ Len(OfFile(warnings, "no_toc", e.name)) = 1

\* C10: when validate_skill has returned, the exit status is 1 exactly when
\* the returned error list is not empty, whatever the warnings, and "All
\* checks passed!" is printed exactly when both lists are empty
C10_ExitCode ==
    /\ pc # "exit" => ~passed /\ exit_code = -1
    /\ (pc = "exit" /\ Called /\ exc = "none") =>
        /\ exit_code \in {0, 1}
        /\ exit_code = 1 <=> errors # <<>>
        /\ passed <=> (errors = <<>> /\ warnings = <<>>)

C10_Witness ==
    /\ pc = "exit"
    /\ Called
    /\ errors = <<>>
    /\ Len(warnings) >= 2
    /\ exit_code = 0
    /\ ~passed

\* the delimited header region of SKILL.md is missing or is not a mapping
NoMapping ==
    LET m == FmMatch(fs) IN
    \/ ~m.ok
    \/ SafeLoad(m.group, fs.fields).err
    \/ SafeLoad(m.group, fs.fields).val.t # "dict"

\* C2: when SKILL.md exists and has no delimited header region, or the region
\* does not parse into a mapping, validate_skill returns normally with exactly
\* one error (missing frontmatter or invalid YAML) and no warning, and runs
\* none of steps 4-8
C2_FatalHeader ==
    (Called /\ fs.skill = "file" /\ NoMapping) =>
        /\ exc = "none"
        /\ warnings = <<>>
        /\ pc \notin {"step4", "step5", "step6", "step7", "step8"}
        /\ pc \in {"returned", "exit"} =>
              /\ Len(errors) = 1
              /\ errors[1].kind \in {"no_frontmatter", "invalid_yaml"}

NameKinds == {"name_missing", "name_length", "name_pattern", "name_hyphens", "name_mismatch"}

NameFindings == SelectSeq(errors, LAMBDA x : x.kind \in NameKinds)

\* step 3 is over
AfterName ==
    /\ frontmatter.t = "dict"
    /\ pc \in {"step4", "step5", "step6", "step7", "step8", "returned", "exit"}

\* the four rules of a name, as the claim words them
BreaksLength(q) == Len(q) > MaxNameLen

BreaksPattern(q) ==
    ~ /\ Len(q) >= 1
      /\ \A i \in 1..Len(q) : q[i] \in AlNum \cup {"-"}
      /\ q[1] \in AlNum
      /\ q[Len(q)] \in AlNum

BreaksHyphens(q) == \E i \in 1..(Len(q) - 1) : q[i] = "-" /\ q[i + 1] = "-"

BreaksDirectory(q) == q # Chars(DirName(argv[1]))

BrokenRules(q) ==
    (IF BreaksLength(q) THEN <<"name_length">> ELSE <<>>)
    \o (IF BreaksPattern(q) THEN <<"name_pattern">> ELSE <<>>)
    \o (IF BreaksHyphens(q) THEN <<"name_hyphens">> ELSE <<>>)
    \o (IF BreaksDirectory(q) THEN <<"name_mismatch">> ELSE <<>>)

\* C3: when the header has parsed and `name` is a non-empty string, the name
\* errors after step 3 are exactly the broken rules among length, pattern,
\* consecutive hyphens and directory mismatch, each once
C3_NameRules ==
    (/\ AfterName
     /\ "name" \in DOMAIN fs.fields
     /\ fs.fields["name"].t = "str"
     /\ fs.fields["name"].s # <<>>) =>
        Kinds(NameFindings) = BrokenRules(Chars(fs.fields["name"].s))

DescFindings == SelectSeq(errors, LAMBDA x : x.kind \in {"desc_missing", "desc_length"})

\* step 4 has run
AfterDesc ==
    /\ frontmatter.t = "dict"
    /\ exc = "none"
    /\ pc \in {"step5", "step6", "step7", "step8", "returned", "exit"}

\* the length of a text once trimmed and with each whitespace run made one space
CollapsedLength(s) ==
    LET ns == {i \in 1..Len(s) : ~IsSpace(s[i].c)} IN
    IF ns = {} THEN 0
    ELSE Cardinality({i \in ns : i < Max(ns) /\ IsSpace(s[i + 1].c)})
         + SumRuns(SelectSeq(s, LAMBDA r : ~IsSpace(r.c)), 1, Cardinality(ns))

IsBlank(s) == \A i \in 1..Len(s) : IsSpace(s[i].c)

\* absent, null, or an empty or whitespace-only text or an empty collection
DescEmpty ==
    \/ "description" \notin DOMAIN fs.fields
    \/ LET v == fs.fields["description"] IN
       \/ v.t = "None"
       \/ v.t = "list" /\ v.i = 0
       \/ v.t = "str" /\ IsBlank(v.s)

\* absent, or a value Python takes for false, or a whitespace-only text
DescFalsyOrBlank ==
    \/ DescEmpty
    \/ LET v == fs.fields["description"] IN v.t \in {"int", "bool"} /\ v.i = 0

DescExpected(missing) ==
    IF missing THEN <<"desc_missing">>
    ELSE IF CollapsedLength(ToStr(fs.fields["description"])) > MaxDescLen
         THEN <<"desc_length">>
         ELSE <<>>

LinksOf(line) ==
    {t \in (1..Len(line)) \X (1..Len(line)) \X (1..Len(line)) :
        /\ t[1] < t[2] /\ t[2] < t[3]
        /\ line[t[1]] = "["
        /\ line[t[2]] = "]("
        /\ \A k \in (t[1] + 1)..(t[2] - 1) : line[k] \notin {"[", "]("}
        /\ line[t[3]] \in {")", ".md)"}
        /\ \A k \in (t[2] + 1)..(t[3] - 1) : line[k] \notin {")", ".md)"}}

\* the links whose target holds references/ or begins with ./, and ends in .md
NestedLinksOf(line) ==
    {t \in LinksOf(line) :
        /\ line[t[3]] = ".md)"
        /\ \/ \E k \in (t[2] + 1)..(t[3] - 1) : line[k] = "references/"
           \/ t[3] > t[2] + 1 /\ line[t[2] + 1] = "./"}

RECURSIVE CountNested(_)
CountNested(runs) ==
    IF runs = <<>> THEN 0
    ELSE runs[1].n * Cardinality(NestedLinksOf(runs[1].c)) + CountNested(Tail(runs))

\* step 8 has run
AfterNested ==
    /\ frontmatter.t = "dict"
    /\ exc = "none"
    /\ pc \in {"returned", "exit"}

\* C7: once step 8 has run, a reference file has one nested-link warning when
\* its content holds a markdown link whose target contains references/ or
\* begins with ./ and ends in .md, and none otherwise; the warning lists
\* min(3, number of such links) texts
C7_NestedLinks ==
    (AfterNested /\ fs.refsKind = "dir") =>
        \A e \in fs.refs :
            LET ws == OfFile(warnings, "nested_links", e.name)
                n  == CountNested(e.lines)
            IN  IF IsRefFile(e) /\ n > 0
                THEN /\ Len(ws) = 1
                     /\ Len(ws[1].l) = (IF n < MaxNestedShown THEN n ELSE MaxNestedShown)
                ELSE ws = <<>>

\* name, description and license as the claim asks for them, "the
\* hyphen/alphanumeric pattern" read as both the pattern rule and the rule
\* against consecutive hyphens, "non-empty" as not blank
ValidFields ==
    /\ DOMAIN fs.fields = {"name", "description", "license"}
    /\ fs.fields["name"].t = "str"
    /\ LET q == Chars(fs.fields["name"].s) IN
       /\ ~BreaksPattern(q)
       /\ ~BreaksHyphens(q)
       /\ ~BreaksLength(q)
       /\ ~BreaksDirectory(q)
    /\ fs.fields["description"].t = "str"
    /\ ~IsBlank(fs.fields["description"].s)
    /\ CollapsedLength(fs.fields["description"].s) <= MaxDescLen

Clean == errors = <<>> /\ warnings = <<>>

QuietRef(e) ==
    /\ SumRuns(e.lines, 1, Len(e.lines)) <= TocMinLines \/ HasTocToken(e.lines)
    /\ \A r \in 1..Len(e.lines) : FindAllLine(e.lines[r].c, 1) = <<>>

Rank(kind) ==
    CASE kind \in {"name_missing", "name_length"} -> 1
      [] kind = "name_pattern"  -> 2
      [] kind = "name_hyphens"  -> 3
      [] kind = "name_mismatch" -> 4
      [] kind \in {"desc_missing", "desc_length"} -> 5
      [] kind = "no_license"    -> 6
      [] kind = "body_lines"    -> 7
      [] kind = "no_toc"        -> 8
      [] kind = "nested_links"  -> 9
      [] OTHER -> 0

InStepOrder(findings) ==
    \A i, j \in 1..Len(findings) : i < j => Rank(findings[i].kind) <= Rank(findings[j].kind)

\* C9: once the header has parsed into a mapping, steps 3-8 all run whatever
\* the earlier ones found, so the run ends with validate_skill returning its
\* findings in step order: the findings of the description, license and body
\* steps are there whenever their conditions hold
C9_Accumulate ==
    (Called /\ fs.skill = "file" /\ ~NoMapping /\ pc = "exit") =>
        /\ exc = "none"
        /\ InStepOrder(errors)
        /\ InStepOrder(warnings)
        /\ Kinds(DescFindings) = DescExpected(DescFalsyOrBlank)
        /\ "license" \notin DOMAIN fs.fields <=> OfKind(warnings, "no_license") # <<>>
        /\ TrimmedBodyLines > MaxBodyLines <=> OfKind(warnings, "body_lines") # <<>>

====
